---------------------------- MODULE Spec2Model ----------------------------
(***************************************************************************)
(* A model of graphics/RGBAImage.h: the RGBA specialisation of Image, its  *)
(* encoder getRGBABytes (channel arrays -> packed 8-bit RGBA) and its      *)
(* decoder getImageFromBytes (packed 8-bit channels -> channel arrays).    *)
(*                                                                         *)
(* Samples are C doubles in the source.  Here a sample is an exact number  *)
(*      (i + n/d) * 2^e      with 0 <= n < d, n/d in lowest terms,         *)
(* kept in that normal form so that two samples are equal exactly when     *)
(* their records are.  e is 0 except for the two samples +-2^HugeExp,      *)
(* which stand for doubles whose product with 255 is outside the range of  *)
(* long.  d = 0 marks a sample of a channel that was allocated without     *)
(* being initialised.  The decoder's scale is the source's literal         *)
(* 0.003921569 = ScaleNum/ScaleDen, not 1/255.  The rounding error of a    *)
(* double product (relative 2^-53) is not modelled: it is eight orders of  *)
(* magnitude below the gap between the literal and 1/255, and no sample of *)
(* the palettes below is that close to a rounding tie without being one.   *)
(***************************************************************************)
EXTENDS Integers, Sequences, FiniteSets

\* ------------------------------------------------------------------------
\* Bounds of the model
MaxDim == 2          \* widths and heights are 0..MaxDim
MaxChannels == 5     \* channel counts are 1..MaxChannels
MaxSeed == 15        \* byte test patterns are numbered 0..MaxSeed
MaxRot == 0          \* palette test images are rotated by 0..MaxRot
MaxCalls == 3        \* calls made in one behaviour

\* ------------------------------------------------------------------------
\* Constants of the program
ByteScale == 255             \* "* 255" in getRGBABytes
DefaultAlpha == 255          \* "bytes[i++] = 255;  // default alpha"
UCharRange == 256            \* values of an unsigned char
LongBits == 64               \* width of lrint's result
ScaleNum == 3921569          \* 0.003921569 = ScaleNum / ScaleDen
ScaleDen == 1000000000
RGBAChannels == 4            \* Image( inWidth, inHeight, 4 )

HugeExp == LongBits + 6

\* ------------------------------------------------------------------------
\* Samples (double)

RECURSIVE Gcd(_, _)
Gcd(a, b) == IF b = 0 THEN a ELSE Gcd(b, a % b)

\* num/den (den > 0) as a sample in normal form
Frac(num, den) ==
    LET r == num % den
        g == Gcd(den, r)
    IN  [i |-> num \div den, n |-> r \div g, d |-> den \div g, e |-> 0]

Whole(k) == [i |-> k, n |-> 0, d |-> 1, e |-> 0]

Huge(sign) == [i |-> sign, n |-> 0, d |-> 1, e |-> HugeExp]

\* what an uninitialised double holds
Garbage == [i |-> 0, n |-> 0, d |-> 0, e |-> 0]

IsDefined(s) == s.d > 0

\* <<q, r>> with q + r/d = m * n/d and 0 <= r < d, by doubling, so that no
\* intermediate exceeds 2*d
RECURSIVE FracTimes(_, _, _)
FracTimes(n, d, m) ==
    IF m = 0 THEN <<0, 0>>
    ELSE LET h == FracTimes(n, d, m \div 2)
             t == 2 * h[2]
             q2 == 2 * h[1] + (t \div d)
             r2 == t % d
             u == IF m % 2 = 1 THEN r2 + n ELSE r2
         IN  <<q2 + (u \div d), u % d>>

\* s * m for a small positive integer m: the double product "channel[p] * 255"
Times(s, m) ==
    IF s.e # 0 THEN [s EXCEPT !.i = s.i * m]
    ELSE LET f == FracTimes(s.n, s.d, m)
             g == Gcd(s.d, f[2])
         IN  [i |-> s.i * m + f[1], n |-> f[2] \div g, d |-> s.d \div g, e |-> 0]

\* whether the value of s is within the range of long
InLongRange(s) == s.e = 0

\* lrint under the default rounding mode: to nearest, ties to even.  A value
\* outside the range of long gives an unspecified result, here `invalid'.
\* LrintTrunc is the plain cast (long)( x ) the encoder used before lrint.
LrintTrunc(s, invalid) ==
    IF ~InLongRange(s) THEN invalid
    ELSE IF s.i >= 0 \/ s.n = 0 THEN s.i ELSE s.i + 1

lrint(s, invalid) ==
    IF ~InLongRange(s) THEN invalid
    ELSE IF 2 * s.n > s.d THEN s.i + 1
    ELSE IF 2 * s.n < s.d THEN s.i
    ELSE IF s.i % 2 = 0 THEN s.i ELSE s.i + 1

\* (unsigned char)( long ): reduction modulo 2^8; the variant saturates
ToUCharSaturating(v) == IF v < 0 THEN 0 ELSE IF v >= UCharRange THEN UCharRange - 1 ELSE v

ToUChar(v) == v % UCharRange

\* The results lrint can give outside the range of long, as far as the cast
\* keeps them: LONG_MIN (x86-64: the "integer indefinite" value) has low
\* byte 0, LONG_MAX (a saturating conversion, AArch64) has low byte 255.
LrintInvalid == {0, -1}

\* (unsigned char)( lrint( sample * 255 ) )
SampleToByteTrunc(s, invalid) == ToUChar(LrintTrunc(Times(s, ByteScale), invalid))

SampleToByte(s, invalid) == ToUChar(lrint(Times(s, ByteScale), invalid))

\* inBytes[ byteIndex ] * 0.003921569; the variant scales by 0.0039
ByteToSampleCoarse(b) == Frac(b * 39, 10000)

ByteToSample(b) == Frac(b * ScaleNum, ScaleDen)


\* ------------------------------------------------------------------------
\* Image (the container RGBAImage extends)

Null == [kind |-> "none"]

Fill(len, s) == [p \in 1..len |-> s]

\* Image( inWidth, inHeight, inNumChannels, inStartWithZero ): every channel
\* holds inWidth * inHeight samples, zeroed only when asked
Image(inWidth, inHeight, inNumChannels, inStartWithZero) ==
    [kind |-> "Image",
     mWide |-> inWidth,
     mHigh |-> inHeight,
     mNumPixels |-> inWidth * inHeight,
     mNumChannels |-> inNumChannels,
     mChannels |-> [c \in 1..inNumChannels |->
                      Fill(inWidth * inHeight,
                           IF inStartWithZero THEN Whole(0) ELSE Garbage)]]

\* the filters of the model: a ChannelFilter maps the samples of one channel
FilterNames == {"addOne", "invert"}

\* x + 1.0 and 1.0 - x in double arithmetic: 2^HugeExp absorbs the 1.0
ApplyToSample(f, s) ==
    IF f = "addOne"
    THEN IF s.e # 0 THEN s ELSE [s EXCEPT !.i = s.i + 1]
    ELSE IF s.e # 0 THEN [s EXCEPT !.i = 0 - s.i]
         ELSE IF s.n = 0 THEN [s EXCEPT !.i = 1 - s.i]
              ELSE [s EXCEPT !.i = 0 - s.i, !.n = s.d - s.n]

ApplyToChannel(f, channel) == [p \in DOMAIN channel |-> ApplyToSample(f, channel[p])]

\* Image::filter( inFilter, inChannel ): the filter applied to one channel
ImageFilterChannel(im, inFilter, inChannel) ==
    [im EXCEPT !.mChannels[inChannel + 1] = ApplyToChannel(inFilter, @)]

\* Image::paste( inImage ) over the whole frame of an image of the same size
ImagePaste(im, inImage) == [im EXCEPT !.mChannels = inImage.mChannels]

\* ------------------------------------------------------------------------
\* RGBAImage

\* RGBAImage( int inWidth, int inHeight )
RGBAImageBlank(inWidth, inHeight) ==
    [Image(inWidth, inHeight, RGBAChannels, TRUE) EXCEPT !.kind = "RGBAImage"]

Min(a, b) == IF a < b THEN a ELSE b

\* the Image base of RGBAImage( Image * ): zeroed only when inImage has too
\* few channels to fill it
BaseNeverZeroed(inImage) ==
    Image(inImage.mWide, inImage.mHigh, RGBAChannels, FALSE)

BaseForCopy(inImage) ==
    Image(inImage.mWide, inImage.mHigh, RGBAChannels,
          inImage.mNumChannels < RGBAChannels)

\* the memcpy loop: for( c=0; c<minNumChannels; c++ )
CopyChannels(base, inImage, minNumChannels) ==
    [base EXCEPT !.mChannels =
        [c \in 1..RGBAChannels |->
            IF c - 1 < minNumChannels THEN inImage.mChannels[c]
            ELSE base.mChannels[c]]]

\* if( minNumChannels < 4 ): set a white alpha channel
WhiteAlphaAlways(im, minNumChannels) ==
    [im EXCEPT !.mChannels[RGBAChannels] = Fill(im.mNumPixels, Whole(1))]

WhiteAlpha(im, minNumChannels) ==
    IF minNumChannels < RGBAChannels
    THEN [im EXCEPT !.mChannels[RGBAChannels] = Fill(im.mNumPixels, Whole(1))]
    ELSE im

\* RGBAImage( Image *inImage )
RGBAImageFromImage(inImage) ==
    LET minNumChannels == Min(RGBAChannels, inImage.mNumChannels)
        copied == CopyChannels(BaseForCopy(inImage), inImage, minNumChannels)
    IN  [WhiteAlpha(copied, minNumChannels) EXCEPT !.kind = "RGBAImage"]

\* the channels RGBAImage::filter( inFilter ) passes to Image::filter
FilteredChannelsAll(im) == 0..(im.mNumChannels - 1)

FilteredChannels(im) == 0..(im.mNumChannels - 2)

\* RGBAImage::filter( ChannelFilter *inFilter )
filter(im, inFilter) ==
    [im EXCEPT !.mChannels =
        [c \in 1..im.mNumChannels |->
            IF c - 1 \in FilteredChannels(im)
            THEN ImageFilterChannel(im, inFilter, c - 1).mChannels[c]
            ELSE im.mChannels[c]]]

\* RGBAImage::filter( ChannelFilter *inFilter, int inChannel )
filterChannel(im, inFilter, inChannel) == ImageFilterChannel(im, inFilter, inChannel)

\* RGBAImage::copy()
copy(im) == ImagePaste(RGBAImageBlank(im.mWide, im.mHigh), im)

\* ------------------------------------------------------------------------
\* Encoder

Buffer(data, w, h, n) == [kind |-> "Bytes", data |-> data, w |-> w, h |-> h, n |-> n]

\* the byte the encoder stores at offset 4p + k of a pixel whose image has
\* more than 3 channels
FourChannelByteTrunc(inImage, p, k, invalid) ==
    SampleToByteTrunc(inImage.mChannels[k + 1][p + 1], invalid)

FourChannelByte(inImage, p, k, invalid) ==
    SampleToByte(inImage.mChannels[k + 1][p + 1], invalid)

\* and of a pixel whose image has 3 channels
ThreeChannelByteAlphaFromRed(inImage, p, k, invalid) ==
    SampleToByte(inImage.mChannels[(k % 3) + 1][p + 1], invalid)

ThreeChannelByte(inImage, p, k, invalid) ==
    IF k < 3 THEN SampleToByte(inImage.mChannels[k + 1][p + 1], invalid)
    ELSE DefaultAlpha

\* static getRGBABytes( Image *inImage ), for an image of 3 or more channels
getRGBABytes(inImage, invalid) ==
    LET numPixels == inImage.mWide * inImage.mHigh
        numChannels == inImage.mNumChannels
        numBytes == numPixels * 4
    IN  [j \in 1..numBytes |->
            LET p == (j - 1) \div 4
                k == (j - 1) % 4
            IN  IF numChannels > 3 THEN FourChannelByte(inImage, p, k, invalid)
                ELSE ThreeChannelByte(inImage, p, k, invalid)]

\* ------------------------------------------------------------------------
\* Decoder

\* int byteIndex = regionPixelIndex * inNumChannels, with
\* regionPixelIndex = y * inWidth + x
ByteIndexMirrored(x, y, inWidth, inNumChannels) ==
    (y * inWidth + (inWidth - 1 - x)) * inNumChannels

ByteIndex(x, y, inWidth, inNumChannels) == (y * inWidth + x) * inNumChannels

\* int outputPixelIndex = outputRow * inWidth + x
OutputPixelIndex(x, outputRow, inWidth) == outputRow * inWidth + x

\* The body of the pixel loop of each path.  acc.im is the image being
\* filled, acc.reads the offsets of inBytes read so far.
\* if( inNumChannels == 3 ): unrolled over channelOne, channelTwo, channelThree
WritePixelThree(acc, inBytes, inWidth, x, y, outputRow) ==
    LET out == OutputPixelIndex(x, outputRow, inWidth) + 1
        byteIndex == ByteIndex(x, y, inWidth, 3)
    IN  [im |-> [acc.im EXCEPT
                   !.mChannels[1][out] = ByteToSample(inBytes[byteIndex + 1]),
                   !.mChannels[2][out] = ByteToSample(inBytes[byteIndex + 2]),
                   !.mChannels[3][out] = ByteToSample(inBytes[byteIndex + 3])],
         reads |-> acc.reads \cup {byteIndex, byteIndex + 1, byteIndex + 2}]

\* else if( inNumChannels == 4 ): unrolled over four channels
WritePixelFour(acc, inBytes, inWidth, x, y, outputRow) ==
    LET out == OutputPixelIndex(x, outputRow, inWidth) + 1
        byteIndex == ByteIndex(x, y, inWidth, 4)
    IN  [im |-> [acc.im EXCEPT
                   !.mChannels[1][out] = ByteToSample(inBytes[byteIndex + 1]),
                   !.mChannels[2][out] = ByteToSample(inBytes[byteIndex + 2]),
                   !.mChannels[3][out] = ByteToSample(inBytes[byteIndex + 3]),
                   !.mChannels[4][out] = ByteToSample(inBytes[byteIndex + 4])],
         reads |-> acc.reads \cup
                     {byteIndex, byteIndex + 1, byteIndex + 2, byteIndex + 3}]

\* else: for( i=0; i<inNumChannels; i++ ) channels[i][out] = inBytes[byteIndex++]
WritePixelGeneral(acc, inBytes, inWidth, inNumChannels, x, y, outputRow) ==
    LET out == OutputPixelIndex(x, outputRow, inWidth) + 1
        byteIndex == ByteIndex(x, y, inWidth, inNumChannels)
    IN  [im |-> [acc.im EXCEPT !.mChannels =
                   [i \in 1..inNumChannels |->
                      [acc.im.mChannels[i] EXCEPT
                         ![out] = ByteToSample(inBytes[byteIndex + i])]]],
         reads |-> acc.reads \cup {byteIndex + i : i \in 0..(inNumChannels - 1)}]

\* the path taken for a channel count
PathOf(inNumChannels) ==
    IF inNumChannels = 3 THEN "three"
    ELSE IF inNumChannels = 4 THEN "four"
    ELSE "general"

WritePixel(path, acc, inBytes, inWidth, inNumChannels, x, y, outputRow) ==
    IF path = "three" THEN WritePixelThree(acc, inBytes, inWidth, x, y, outputRow)
    ELSE IF path = "four" THEN WritePixelFour(acc, inBytes, inWidth, x, y, outputRow)
    ELSE WritePixelGeneral(acc, inBytes, inWidth, inNumChannels, x, y, outputRow)

\* for( int x=0; x<inWidth; x++ )
RECURSIVE RowLoop(_, _, _, _, _, _, _)
RowLoop(path, acc, inBytes, inWidth, inNumChannels, y, x) ==
    IF x < inWidth
    THEN RowLoop(path,
                 WritePixel(path, acc, inBytes, inWidth, inNumChannels, x, y, y),
                 inBytes, inWidth, inNumChannels, y, x + 1)
    ELSE acc

\* for( int y=0; y<inHeight; y++ ), outputRow running with y
RECURSIVE ImageLoop(_, _, _, _, _, _, _)
ImageLoop(path, acc, inBytes, inWidth, inHeight, inNumChannels, y) ==
    IF y < inHeight
    THEN ImageLoop(path,
                   RowLoop(path, acc, inBytes, inWidth, inNumChannels, y, 0),
                   inBytes, inWidth, inHeight, inNumChannels, y + 1)
    ELSE acc

\* the conversion along a given path
DecodeVia(path, inBytes, inWidth, inHeight, inNumChannels) ==
    ImageLoop(path,
              [im |-> Image(inWidth, inHeight, inNumChannels, FALSE), reads |-> {}],
              inBytes, inWidth, inHeight, inNumChannels, 0)

\* static getImageFromBytes( inBytes, inWidth, inHeight, inNumChannels )
getImageFromBytes(inBytes, inWidth, inHeight, inNumChannels) ==
    DecodeVia(PathOf(inNumChannels), inBytes, inWidth, inHeight, inNumChannels)

\* ------------------------------------------------------------------------
\* The inputs a caller starts from

\* a packed buffer of w*h pixels of n channels; over the seeds every byte
\* value 0..255 occurs
TestBytes(w, h, n, seed) ==
    Buffer([j \in 1..(w * h * n) |-> (seed + (MaxSeed + 1) * (j - 1)) % UCharRange],
           w, h, n)

\* samples that are exact multiples of 1/255
GridPalette ==
    <<Whole(0), Frac(1, 255), Frac(64, 255), Frac(127, 255), Frac(128, 255),
      Frac(191, 255), Frac(254, 255), Whole(1), Frac(85, 255), Frac(2, 255),
      Frac(200, 255)>>

\* samples in [0, 1]; 253/510 and 1/2 scale to the ties 126.5 and 127.5
UnitPalette ==
    <<Frac(1, 2), Frac(1, 4), Frac(3, 4), Whole(1), Frac(638, 1275),
      Frac(253, 510), Whole(0), Frac(1, 3), Frac(2, 3), Frac(1, 1000),
      Frac(999, 1000)>>

\* samples outside [0, 1], two of them beyond the range of long when scaled
WildPalette ==
    <<Frac(256, 255), Frac(-1, 255), Whole(2), Frac(-1, 2), Huge(1),
      Frac(3, 2), Whole(-1), Frac(257, 255), Huge(-1), Frac(1, 2), Whole(1)>>

Palettes == {GridPalette, UnitPalette, WildPalette}

\* an image whose samples run through a palette, channel after channel
TestImage(w, h, n, pal, rot) ==
    [Image(w, h, n, TRUE) EXCEPT !.mChannels =
        [c \in 1..n |->
            [p \in 1..(w * h) |->
                pal[((rot + (c - 1) * w * h + (p - 1)) % Len(pal)) + 1]]]]

Dims == 0..MaxDim
ChannelCounts == 1..MaxChannels

InitialObjects ==
    {Null}
    \cup {TestBytes(w, h, n, seed) :
            w \in Dims, h \in Dims, n \in ChannelCounts, seed \in 0..MaxSeed}
    \cup {TestImage(w, h, n, pal, rot) :
            w \in Dims, h \in Dims, n \in ChannelCounts,
            pal \in Palettes, rot \in 0..MaxRot}

\* ------------------------------------------------------------------------
\* State: a caller that owns one object at a time and hands it to the next
\* call, destroying what the call does not keep.

VARIABLES
    obj,       \* the object the caller holds: Null, an Image, an RGBAImage
               \* or a byte buffer with the dimensions it was made for
    src,       \* the object the last call was made on or with (Null at first)
    src2,      \* the object the call before that was made on or with
    op,        \* the last call: its name and parameters
    base,      \* the held RGBAImage as its constructor returned it
    calls,     \* the filter calls made on it since
    reads,     \* the offsets of inBytes the last getImageFromBytes read
    theFilter, \* the ChannelFilter the caller owns
    nCalls     \* calls made so far

vars == <<obj, src, src2, op, base, calls, reads, theFilter, nCalls>>

NoOp == [name |-> "none", filter |-> "none", channel |-> -1]

Call(name) == [name |-> name, filter |-> "none", channel |-> -1]

FilterCall(name, f, c) == [name |-> name, filter |-> f, channel |-> c]

IsImage(o) == o.kind \in {"Image", "RGBAImage"}

Init ==
    /\ obj \in InitialObjects
    /\ src = Null
    /\ src2 = Null
    /\ op = NoOp
    /\ base = Null
    /\ calls = <<>>
    /\ reads = {}
    /\ theFilter \in FilterNames
    /\ nCalls = 0

\* the caller makes at most MaxCalls calls
MayCall == nCalls < MaxCalls

\* the bookkeeping common to every call
Called(o) ==
    /\ nCalls' = nCalls + 1
    /\ UNCHANGED theFilter
    /\ src' = obj
    /\ src2' = src
    /\ op' = o

\* RGBAImage::getRGBABytes( Image *inImage ), on an Image of 3 or more
\* channels ("MUST be a 3- or 4-channel image")
GetRGBABytesStatic ==
    /\ MayCall
    /\ obj.kind = "Image"
    /\ obj.mNumChannels >= 3
    /\ \E invalid \in LrintInvalid :
          obj' = Buffer(getRGBABytes(obj, invalid), obj.mWide, obj.mHigh, 4)
    /\ Called(Call("getRGBABytes"))
    /\ base' = Null
    /\ calls' = <<>>
    /\ reads' = {}

\* rgba->getRGBABytes(): return RGBAImage::getRGBABytes( this )
GetRGBABytesMember ==
    /\ MayCall
    /\ obj.kind = "RGBAImage"
    /\ \E invalid \in LrintInvalid :
          obj' = Buffer(getRGBABytes(obj, invalid), obj.mWide, obj.mHigh, 4)
    /\ Called(Call("getRGBABytesMember"))
    /\ base' = Null
    /\ calls' = <<>>
    /\ reads' = {}

\* RGBAImage::getImageFromBytes( inBytes, inWidth, inHeight, inNumChannels )
GetImageFromBytes ==
    /\ MayCall
    /\ obj.kind = "Bytes"
    /\ LET r == getImageFromBytes(obj.data, obj.w, obj.h, obj.n)
       IN  /\ obj' = r.im
           /\ reads' = r.reads
    /\ Called(Call("getImageFromBytes"))
    /\ base' = Null
    /\ calls' = <<>>

\* new RGBAImage( inWidth, inHeight )
NewRGBAImage ==
    /\ MayCall
    /\ obj = Null
    /\ \E w \in Dims, h \in Dims : obj' = RGBAImageBlank(w, h)
    /\ Called(Call("RGBAImage"))
    /\ base' = obj'
    /\ calls' = <<>>
    /\ reads' = {}

\* new RGBAImage( inImage )
NewRGBAImageFromImage ==
    /\ MayCall
    /\ obj.kind = "Image"
    /\ obj' = RGBAImageFromImage(obj)
    /\ Called(Call("RGBAImageFromImage"))
    /\ base' = obj'
    /\ calls' = <<>>
    /\ reads' = {}

\* rgba->filter( inFilter )
Filter ==
    /\ MayCall
    /\ obj.kind = "RGBAImage"
    /\ obj' = filter(obj, theFilter)
    /\ Called(FilterCall("filter", theFilter, -1))
    /\ calls' = Append(calls, FilterCall("filter", theFilter, -1))
    /\ UNCHANGED base
    /\ reads' = {}

\* rgba->filter( inFilter, inChannel )
FilterChannel ==
    /\ MayCall
    /\ obj.kind = "RGBAImage"
    /\ \E c \in 0..(RGBAChannels - 1) :
          /\ obj' = filterChannel(obj, theFilter, c)
          /\ Called(FilterCall("filterChannel", theFilter, c))
          /\ calls' = Append(calls, FilterCall("filterChannel", theFilter, c))
    /\ UNCHANGED base
    /\ reads' = {}

\* rgba->copy(), the caller keeping the copy
Copy ==
    /\ MayCall
    /\ obj.kind = "RGBAImage"
    /\ obj' = copy(obj)
    /\ Called(Call("copy"))
    /\ UNCHANGED <<base, calls>>
    /\ reads' = {}

Next ==
    \/ GetRGBABytesStatic
    \/ GetRGBABytesMember
    \/ GetImageFromBytes
    \/ NewRGBAImage
    \/ NewRGBAImageFromImage
    \/ Filter
    \/ FilterChannel
    \/ Copy

Spec == Init /\ [][Next]_vars

\* ------------------------------------------------------------------------
\* Vocabulary of the properties

EncoderCalls == {"getRGBABytes", "getRGBABytesMember"}

\* the last call encoded the image src into the buffer obj
Encoded == op.name \in EncoderCalls

\* the last call decoded the buffer src into the image obj
Decoded == op.name = "getImageFromBytes"

\* the last call built the RGBAImage obj from the image src
Converted == op.name = "RGBAImageFromImage"

InUnit(s) == s.e = 0 /\ (s.i = 0 \/ (s.i = 1 /\ s.n = 0))

\* k/255 for some k in 0..255
OnGrid(s) == InUnit(s) /\ ByteScale % s.d = 0

\* byte / 255.0
ByteOver255(b) == Frac(b, ByteScale)

Pixels(im) == 0..(im.mWide * im.mHigh - 1)

Sample(im, k, p) == im.mChannels[k + 1][p + 1]

\* m is an integer nearest to the value of t (t within the range of long)
IsNearest(m, t) ==
    \/ m = t.i /\ 2 * t.n <= t.d
    \/ m = t.i + 1 /\ 2 * t.n >= t.d

\* b is s * 255 rounded to a nearest integer
IsRounded(b, s) ==
    LET t == Times(s, ByteScale)
    IN  InLongRange(t) /\ IsNearest(b, t)

\* b is a nearest integer to s * 255, reduced modulo 256
IsRoundedAndWrapped(b, s) ==
    LET t == Times(s, ByteScale)
    IN  /\ InLongRange(t)
        /\ \E m \in {t.i, t.i + 1} : IsNearest(m, t) /\ b = m % UCharRange

\* the same for every double: +-255 * 2^HugeExp is a multiple of 256
IsRoundedAndWrappedAnywhere(b, s) ==
    IF s.e # 0 THEN b = 0 ELSE IsRoundedAndWrapped(b, s)

AllSamples(im, P(_)) ==
    \A c \in 1..im.mNumChannels : \A p \in 1..im.mNumPixels : P(im.mChannels[c][p])

\* ------------------------------------------------------------------------
\* C1.  Round-trip identity: decoding the encoding of a 4-channel image
\* whose samples are all multiples of 1/255 gives back every sample exactly.
\* (A buffer in src made from an image in src2 was made by the encoder.)
C1_RoundTripIdentity ==
    (/\ Decoded
     /\ IsImage(src2)
     /\ src2.mNumChannels = 4
     /\ AllSamples(src2, OnGrid))
    => obj.mChannels = src2.mChannels

\* ------------------------------------------------------------------------
\* C2.  Encoder rounding: for an image of more than 3 channels, byte 4p+k
\* (k in 0..3) of the buffer is sample k of pixel p times 255 rounded to a
\* nearest integer whenever that sample is in [0, 1], whatever channels 4 and
\* up hold; 127.6/255 gives 128 and [0.5, 0.25, 0.75, 1.0] gives
\* [128, 64, 191, 255].
C2_EncoderRounds ==
    (Encoded /\ src.mNumChannels > 3)
    => /\ Len(obj.data) = 4 * src.mWide * src.mHigh
       /\ \A p \in Pixels(src) : \A k \in 0..3 :
             /\ InUnit(Sample(src, k, p))
                   => IsRounded(obj.data[4 * p + k + 1], Sample(src, k, p))
             /\ Sample(src, k, p) = Frac(638, 1275) => obj.data[4 * p + k + 1] = 128
       /\ (/\ src.mNumPixels = 1
           /\ [k \in 1..4 |-> src.mChannels[k][1]]
                 = <<Frac(1, 2), Frac(1, 4), Frac(3, 4), Whole(1)>>)
          => obj.data = <<128, 64, 191, 255>>

C2_Witness ==
    /\ Encoded
    /\ src.mNumChannels = 5
    /\ \E p \in Pixels(src) : \E k \in 0..3 :
          /\ Sample(src, k, p) = Frac(638, 1275)
          /\ obj.data[4 * p + k + 1] = 128

\* ------------------------------------------------------------------------
\* C3.  Alpha defaulting: the encoding of a 3-channel image has 4 bytes per
\* pixel; byte 4p+3 is 255 whatever the samples are, and bytes 4p..4p+2 are
\* the rounded samples of channels 0..2 at pixel p.
C3_AlphaDefault ==
    (Encoded /\ src.mNumChannels = 3)
    => /\ Len(obj.data) = 4 * src.mWide * src.mHigh
       /\ \A p \in Pixels(src) :
             /\ obj.data[4 * p + 4] = 255
             /\ \A k \in 0..2 :
                   InUnit(Sample(src, k, p))
                      => IsRounded(obj.data[4 * p + k + 1], Sample(src, k, p))

C3_Witness ==
    /\ Encoded
    /\ src.mNumChannels = 3
    /\ src.mNumPixels = 4
    /\ \E p \in Pixels(src) : \E k \in 0..2 : ~InUnit(Sample(src, k, p))
    /\ \E p \in Pixels(src) : \E k \in 0..2 : Sample(src, k, p) = Frac(1, 2)
    /\ \A p \in Pixels(src) : obj.data[4 * p + 4] = 255

\* ------------------------------------------------------------------------
\* C4.  Alpha synthesis: an RGBAImage built from an image of 1, 2 or 3
\* channels has alpha 1.0 at every pixel; built from an image of 4 or more
\* channels it has the source's channel 3, pixel for pixel.
C4_AlphaSynthesis ==
    Converted
    => /\ src.mNumChannels < 4
            => obj.mChannels[4] = Fill(src.mWide * src.mHigh, Whole(1))
       /\ src.mNumChannels >= 4 => obj.mChannels[4] = src.mChannels[4]

C4_Witness ==
    /\ Converted
    /\ src.mNumChannels >= 4
    /\ src.mNumPixels >= 2
    /\ \E p \in Pixels(src) : Sample(src, 3, p) # Whole(1)
    /\ obj.mChannels[4] = src.mChannels[4]

\* ------------------------------------------------------------------------
\* C5.  Channel truncation and padding: an RGBAImage built from an image of
\* c channels has exactly 4 channels of width*height defined samples; colour
\* channel k (0..2) is source channel k when k < c and all 0.0 when k >= c;
\* source channels 4 and up are dropped.
C5_ChannelPadding ==
    Converted
    => /\ obj.mNumChannels = 4
       /\ Len(obj.mChannels) = 4
       /\ \A c \in 1..4 :
             /\ Len(obj.mChannels[c]) = src.mWide * src.mHigh
             /\ \A p \in 1..Len(obj.mChannels[c]) : IsDefined(obj.mChannels[c][p])
       /\ \A k \in 0..2 :
             obj.mChannels[k + 1] =
                IF k < src.mNumChannels THEN src.mChannels[k + 1]
                ELSE Fill(src.mWide * src.mHigh, Whole(0))

C5_Witness ==
    /\ Converted
    /\ src.mNumChannels = 2
    /\ src.mNumPixels >= 2
    /\ \E p \in Pixels(src) : Sample(src, 1, p) # Whole(0)
    /\ obj.mChannels[3] = Fill(src.mNumPixels, Whole(0))

\* ------------------------------------------------------------------------
\* C6.  Decoder pixel ordering: on every path, sample k of the pixel at
\* linear index y*width + x comes from the byte at offset (y*width + x)*N + k
\* and no other; the result is that of the general per-channel loop; the
\* bytes read are exactly those of the buffer, none for a zero-size image.
C6_DecoderOrdering ==
    Decoded
    => /\ obj.mWide = src.w /\ obj.mHigh = src.h /\ obj.mNumChannels = src.n
       /\ \A x \in 0..(src.w - 1) : \A y \in 0..(src.h - 1) : \A k \in 0..(src.n - 1) :
             Sample(obj, k, y * src.w + x)
                = ByteToSample(src.data[(y * src.w + x) * src.n + k + 1])
       /\ obj = DecodeVia("general", src.data, src.w, src.h, src.n).im
       /\ reads = 0..(src.w * src.h * src.n - 1)
       /\ (src.w = 0 \/ src.h = 0) => reads = {} /\ obj.mNumPixels = 0

C6_Witness ==
    /\ Decoded
    /\ src.n = 3
    /\ src.w = 2
    /\ src.h = 2
    /\ \A j1, j2 \in 1..Len(src.data) : j1 # j2 => src.data[j1] # src.data[j2]
    /\ Sample(obj, 2, 3) = ByteToSample(src.data[12])

\* ------------------------------------------------------------------------
\* C7.  Decoder scaling is exact: every decoded sample is byte/255 exactly,
\* so 0 gives 0.0 and 255 gives 1.0.
C7_DecoderExact ==
    Decoded
    => \A k \in 0..(src.n - 1) : \A p \in Pixels(obj) :
          Sample(obj, k, p) = ByteOver255(src.data[p * src.n + k + 1])

\* ------------------------------------------------------------------------
\* C8.  Filter channel exclusion: a call of filter( f ) applies f once to
\* each of channels 0, 1 and 2 and leaves alpha as it was; after any run of
\* such calls alpha is what the constructor left; among the calls on an
\* RGBAImage only filter( f, 3 ) changes alpha.
OnlyFilterAll == \A j \in 1..Len(calls) : calls[j].name = "filter"

C8_FilterExclusion ==
    /\ op.name = "filter"
          => /\ obj.mChannels[4] = src.mChannels[4]
             /\ \A c \in 1..3 :
                   obj.mChannels[c] = ApplyToChannel(op.filter, src.mChannels[c])
    /\ (obj.kind = "RGBAImage" /\ OnlyFilterAll)
          => obj.mChannels[4] = base.mChannels[4]
    /\ (/\ op.name \in {"filter", "filterChannel", "copy"}
        /\ obj.mChannels[4] # src.mChannels[4])
          => op.name = "filterChannel" /\ op.channel = 3

C8_Witness ==
    /\ op.name = "filter"
    /\ op.filter = "addOne"
    /\ Len(calls) = 2
    /\ OnlyFilterAll
    /\ obj.mNumPixels >= 2
    /\ \A c \in 1..3 : obj.mChannels[c] # src.mChannels[c]
    /\ obj.mChannels[4] = base.mChannels[4]
    /\ obj.mChannels[4] # Fill(obj.mNumPixels, Whole(1))

\* ------------------------------------------------------------------------
\* C9.  No clamping, as stated: the byte of every sample outside [0, 1] is
\* a nearest integer to the sample times 255, reduced modulo 256.
C9_WrapsForEverySample ==
    Encoded
    => \A p \in Pixels(src) : \A k \in 0..(Min(src.mNumChannels, 4) - 1) :
          ~InUnit(Sample(src, k, p))
             => IsRoundedAndWrappedAnywhere(obj.data[4 * p + k + 1], Sample(src, k, p))

\* C9 as amended.  The byte of a sample outside [0, 1] whose product with 255
\* is within the range of long is a nearest integer to that product, reduced
\* modulo 256 and not saturated: 256/255 gives 0 and -1/255 gives 255.
C9_WrapsWithinLong ==
    Encoded
    => \A p \in Pixels(src) : \A k \in 0..(Min(src.mNumChannels, 4) - 1) :
          /\ (~InUnit(Sample(src, k, p)) /\ InLongRange(Sample(src, k, p)))
                => IsRoundedAndWrapped(obj.data[4 * p + k + 1], Sample(src, k, p))
          /\ Sample(src, k, p) = Frac(256, 255) => obj.data[4 * p + k + 1] = 0
          /\ Sample(src, k, p) = Frac(-1, 255) => obj.data[4 * p + k + 1] = 255

C9_Witness ==
    /\ Encoded
    /\ \E p \in Pixels(src) :
          /\ Sample(src, 0, p) = Frac(256, 255)
          /\ obj.data[4 * p + 1] = 0
          /\ Sample(src, 1, p) = Frac(-1, 255)
          /\ obj.data[4 * p + 2] = 255

\* ------------------------------------------------------------------------
\* C10.  Byte-side round trip: encoding the image decoded from a 4-channel
\* buffer gives the buffer back byte for byte; from a 3-channel buffer it
\* gives, per pixel, the three bytes of the buffer and then 255.
\* (An image in src made from a buffer in src2 was made by the decoder.)
C10_ByteRoundTrip ==
    (Encoded /\ src2.kind = "Bytes")
    => /\ src2.n = 4 => obj.data = src2.data
       /\ src2.n = 3
            => /\ Len(obj.data) = 4 * src2.w * src2.h
               /\ \A p \in 0..(src2.w * src2.h - 1) :
                     /\ \A k \in 0..2 : obj.data[4 * p + k + 1] = src2.data[3 * p + k + 1]
                     /\ obj.data[4 * p + 4] = 255

C10_Witness ==
    /\ Encoded
    /\ src2.kind = "Bytes"
    /\ src2.n = 4
    /\ Len(src2.data) = 16
    /\ \E j \in 1..16 : src2.data[j] = 255
    /\ obj.data = src2.data

=============================================================================
